---- MODULE Spec2Model ----
(***************************************************************************)
(* Model of flocker's ChangeSnapshotter (src/flocker/snapshots.py): the    *)
(* finite state machine that turns "filesystem changed" notifications into *)
(* calls of IFilesystemSnapshots.create.                                   *)
(*                                                                         *)
(* The machine is built with machinist.constructFiniteStateMachine from    *)
(* the names _Inputs, _Outputs, _States and the table _transitions.  Its   *)
(* receive() looks the input up in the current state's row: with a row     *)
(* entry it moves to the entry's next state and then runs the entry's      *)
(* outputs; without one it raises (IllegalInput for a symbol outside       *)
(* _Inputs, UnhandledInput for a symbol of _Inputs the row lacks) and      *)
(* leaves the state alone.                                                 *)
(***************************************************************************)
EXTENDS Integers, Sequences, FiniteSets, TLC

\* ---------------------------------------------------------------- bounds

\* The clock is advanced up to this reading (the 10 second limit of the
\* class docstring lies inside it).
MaxTime == 12

\* Number of filesystemChanged() calls made on the instance.
MaxChanges == 3

\* Number of completion signals handed to the machine.
MaxSignals == 2

\* "if a snapshot take more than 10 seconds it should be cancelled"
Deadline == 10

\* "we probably want to wait 1 second between snapshots"
MinInterval == 1

\* ------------------------------------------------------- names of the code

\* class _Inputs: the only constant left uncommented.
_Inputs == {"FILESYSTEM_CHANGED"}

\* The two input names the source keeps as comments; no such input is part
\* of the machine.
CommentedInputs == {"SNAPSHOT_SUCCEEDED", "SNAPSHOT_FAILED"}

\* class _Outputs
_Outputs == {"START_SNAPSHOT"}

\* class _States (SNAPSHOTTING_DIRTY is a comment in the source)
_States == {"IDLE", "SNAPSHOTTING"}

\* The node names a ChangeSnapshotter may be constructed with.
Nodes == {"node1", "node2"}

\* Results of a call: it returned, or it raised one of machinist's errors.
Raised == {"none", "UnhandledInput", "IllegalInput"}

\* The states an IFilesystemSnapshots.create() result can be in.
Outcomes == {"succeeded", "failed"}

\* -------------------------------------------------------- the transitions

\* Changed tables, each one slip away from _transitions.
\* SNAPSHOTTING answers FILESYSTEM_CHANGED with another START_SNAPSHOT.
TransitionsRestart ==
    [s \in _States |->
        [i \in {"FILESYSTEM_CHANGED"} |->
            [output |-> <<"START_SNAPSHOT">>, nextState |-> "SNAPSHOTTING"]]]

\* IDLE moves to SNAPSHOTTING without the START_SNAPSHOT output.
TransitionsNoOutput ==
    [s \in _States |->
        IF s = "IDLE"
        THEN [i \in {"FILESYSTEM_CHANGED"} |->
                 [output |-> <<>>, nextState |-> "SNAPSHOTTING"]]
        ELSE [i \in {} |-> [output |-> <<>>, nextState |-> s]]]

\* The docstring's failure row, wired for SNAPSHOTTING with no check of
\* the attempt the signal speaks of.
TransitionsRetryUnguarded ==
    [s \in _States |->
        IF s = "IDLE"
        THEN [i \in {"FILESYSTEM_CHANGED"} |->
                 [output |-> <<"START_SNAPSHOT">>, nextState |-> "SNAPSHOTTING"]]
        ELSE [i \in {"SNAPSHOT_FAILED"} |->
                 [output |-> <<"START_SNAPSHOT">>, nextState |-> "SNAPSHOTTING"]]]

\* The docstring's failure row, wired for every state, IDLE included.
TransitionsRetryInIdle ==
    [s \in _States |->
        [i \in {"FILESYSTEM_CHANGED", "SNAPSHOT_FAILED"} |->
            IF s = "IDLE" \/ i = "SNAPSHOT_FAILED"
            THEN [output |-> <<"START_SNAPSHOT">>, nextState |-> "SNAPSHOTTING"]
            ELSE [output |-> <<>>, nextState |-> s]]]

\* SNAPSHOTTING answers FILESYSTEM_CHANGED by going back to IDLE.
TransitionsBackToIdle ==
    [s \in _States |->
        [i \in {"FILESYSTEM_CHANGED"} |->
            IF s = "IDLE"
            THEN [output |-> <<"START_SNAPSHOT">>, nextState |-> "SNAPSHOTTING"]
            ELSE [output |-> <<>>, nextState |-> "IDLE"]]]

\* _transitions: state -> (input -> (outputs, next state)).  A row has an
\* entry only for the inputs added with addTransitions.
_transitions ==
    [s \in _States |->
        IF s = "IDLE"
        THEN [i \in {"FILESYSTEM_CHANGED"} |->
                 [output |-> <<"START_SNAPSHOT">>, nextState |-> "SNAPSHOTTING"]]
        ELSE [i \in {} |-> [output |-> <<>>, nextState |-> s]]]

\* The machine's receive(): the row entry decides; a missing entry raises
\* and changes nothing.
receive(st, input) ==
    IF input \in DOMAIN _transitions[st]
    THEN [state  |-> _transitions[st][input].nextState,
          output |-> _transitions[st][input].output,
          raised |-> "none"]
    ELSE [state  |-> st,
          output |-> <<>>,
          raised |-> IF input \in _Inputs THEN "UnhandledInput"
                                          ELSE "IllegalInput"]

\* datetime.fromtimestamp(seconds, UTC): the day and the second of the day.
fromtimestamp(seconds) ==
    [day |-> seconds \div 86400, second |-> seconds % 86400]

\* SnapshotName(timestamp, node)
SnapshotName(timestamp, node) == [timestamp |-> timestamp, node |-> node]

\* The clock reading a snapshot name was made from.
SecondsOf(n) == n.timestamp.day * 86400 + n.timestamp.second

\* ------------------------------------------------------------------ state

VARIABLES
    name,       \* self._name
    state,      \* the state of self._fsm
    now,        \* self._clock.seconds()
    created,    \* the names fsSnapshots.create was called with, in order
    status,     \* per create call: "running", "succeeded" or "failed"
    changes,    \* number of filesystemChanged() calls the watcher made
    nested,     \* the input delivered from inside the last create call
    inTime,     \* the create calls whose result resolved within Deadline
    sinceStart, \* filesystemChanged() calls made after the last create call
    signals,    \* number of completion signals handed to the machine
    lastInput,  \* the last symbol handed to the machine, with its tag
    raised,     \* how the last call on the instance ended
    args,       \* provision(): node, username, distribution, package_source
    pstate,     \* provision(): "idle", "running", "done" or "failed"
    commands,   \* run_with_fabric: the commands it was called with
    attempts,   \* run_with_fabric: handler calls made (the loop's position)
    executed,   \* the commands the remote host ran, with their host_string
    failedAt,   \* position of the command whose handler failed, 0 if none
    host_string,  \* fabric's env.host_string ("" outside settings())
    disconnected  \* disconnect_all() was called

svars == <<name, state, now, created, status, changes, nested, inTime,
           sinceStart, signals, lastInput, raised>>

pvars == <<args, pstate, commands, attempts, executed, failedAt,
           host_string, disconnected>>

vars == <<svars, pvars>>

NoInput == [symbol |-> "none", tag |-> 0]

\* No input was delivered from inside a create call.
NoNested == [against |-> "none", raised |-> "none"]

\* ChangeSnapshotter.__init__
SnapshotterInit ==
    /\ name \in Nodes
    /\ state = "IDLE"
    /\ now = 0
    /\ created = <<>>
    /\ status = <<>>
    /\ changes = 0
    /\ nested = NoNested
    /\ inTime = {}
    /\ sinceStart = 0
    /\ signals = 0
    /\ lastInput = NoInput
    /\ raised = "none"

\* output_START_SNAPSHOT naming the snapshot with the clock reading taken
\* when the instance was constructed instead of the current one.
outputConstructionClock(calls, seconds, node) ==
    Append(calls, SnapshotName(fromtimestamp(0), node))

\* output_START_SNAPSHOT: the sequence of create calls after running the
\* outputs of one transition at clock reading `seconds`.
output_START_SNAPSHOT(calls, seconds, node) ==
    Append(calls, SnapshotName(fromtimestamp(seconds), node))

\* The create calls after running `outputs` in order.
RECURSIVE runOutputs(_, _, _, _)
runOutputs(outputs, calls, seconds, node) ==
    IF outputs = <<>> THEN calls
    ELSE runOutputs(Tail(outputs),
                    IF Head(outputs) = "START_SNAPSHOT"
                    THEN output_START_SNAPSHOT(calls, seconds, node)
                    ELSE calls,
                    seconds, node)

\* The machine's state while the outputs of a transition run: receive()
\* stores the next state, then the outputs are run.
stateDuringOutputs(before, after) == after

\* filesystemChanged(): hands FILESYSTEM_CHANGED to the machine.  A create
\* call returns a result that is pending or already resolved (`sync`), and
\* the provider may call filesystemChanged() again from inside create
\* (`reenter`); that inner call ends for its caller, the outer one goes on.
filesystemChanged ==
    /\ changes < MaxChanges
    /\ \E sync \in {"running"} \cup Outcomes, reenter \in BOOLEAN :
        LET r == receive(state, "FILESYSTEM_CHANGED")
            calls == runOutputs(r.output, created, now, name)
            started == Len(calls) > Len(created)
            during == stateDuringOutputs(state, r.state)
            inner == receive(during, "FILESYSTEM_CHANGED")
            innerCalls == runOutputs(inner.output, calls, now, name)
            all == IF started /\ reenter THEN innerCalls ELSE calls
        IN /\ state' = IF started /\ reenter THEN inner.state ELSE r.state
           /\ created' = all
           /\ status' = status \o [k \in 1..(Len(all) - Len(created)) |-> sync]
           /\ inTime' = IF sync = "running" THEN inTime
                        ELSE inTime \cup ((Len(created) + 1)..Len(all))
           /\ raised' = r.raised
           /\ nested' = IF started
                        THEN IF reenter
                             THEN [against |-> during, raised |-> inner.raised]
                             ELSE NoNested
                        ELSE nested
           /\ sinceStart' = IF started
                            THEN IF reenter /\ Len(all) = Len(calls)
                                 THEN 1 ELSE 0
                            ELSE sinceStart + 1
    /\ changes' = changes + 1
    /\ lastInput' = [symbol |-> "FILESYSTEM_CHANGED", tag |-> 0]
    /\ UNCHANGED <<name, now, signals>>
    /\ UNCHANGED pvars

\* The result of create call i resolves.  output_START_SNAPSHOT drops the
\* value create returns, so nothing of the instance runs.
ProviderResolves ==
    /\ \E i \in DOMAIN status, outcome \in Outcomes :
        /\ status[i] = "running"
        /\ status' = [status EXCEPT ![i] = outcome]
        /\ inTime' = IF now - SecondsOf(created[i]) < Deadline
                     THEN inTime \cup {i} ELSE inTime
    /\ UNCHANGED <<name, state, now, created, changes, nested, sinceStart,
                   signals, lastInput, raised>>
    /\ UNCHANGED pvars

\* A symbol that is not an input of the machine (a completion signal, tagged
\* with the clock reading of the attempt it speaks of) is handed to receive().
receiveCompletion ==
    /\ signals < MaxSignals
    /\ signals' = signals + 1
    /\ \E symbol \in CommentedInputs, tag \in 0..now :
        LET r == receive(state, symbol)
            calls == runOutputs(r.output, created, now, name)
        IN /\ state' = r.state
           /\ created' = calls
           /\ status' = status \o
                 [k \in 1..(Len(calls) - Len(created)) |-> "running"]
           /\ raised' = r.raised
           /\ sinceStart' = IF Len(calls) > Len(created) THEN 0
                            ELSE sinceStart
           /\ lastInput' = [symbol |-> symbol, tag |-> tag]
    /\ UNCHANGED <<name, now, changes, nested, inTime>>
    /\ UNCHANGED pvars

\* The clock advances by one second, and a timeout armed with the last
\* create call and never disarmed fires at its deadline and retries.
TickTimeoutArmed ==
    /\ now < MaxTime
    /\ now' = now + 1
    /\ IF created # <<>> /\ now' - SecondsOf(created[Len(created)]) = Deadline
       THEN /\ created' = output_START_SNAPSHOT(created, now', name)
            /\ status' = Append(status, "running")
       ELSE UNCHANGED <<created, status>>
    /\ UNCHANGED <<name, state, changes, nested, inTime,
                   sinceStart, signals, lastInput, raised>>
    /\ UNCHANGED pvars

\* The clock advances by one second.  Nothing of the instance is scheduled
\* on the clock: output_START_SNAPSHOT arms no timeout.
Tick ==
    /\ now < MaxTime
    /\ now' = now + 1
    /\ UNCHANGED <<name, state, created, status, changes, nested, inTime,
                   sinceStart, signals, lastInput, raised>>
    /\ UNCHANGED pvars

\* ------------------------------------------ provision (provision/_install.py)

ZFS_REPO ==
    "https://s3.amazonaws.com/archive.zfsonlinux.org/"
    \o "fedora/zfs-release$(rpm -E %dist).noarch.rpm"

CLUSTERHQ_REPO ==
    "https://storage.googleapis.com/archive.clusterhq.com/"
    \o "fedora/clusterhq-release$(rpm -E %dist).noarch.rpm"

\* Run(command=...)
Run(command) == [type |-> "Run", command |-> command]

\* Put(content=..., path=...)
Put(content, path) == [type |-> "Put", content |-> content, path |-> path]

\* The arguments provision() is called with.  "" stands for a value Python
\* takes as false (None or the empty string).
Usernames == {"root", "fedora"}
Addresses == {"10.0.0.1", "node.example.com"}
Distributions == {"fedora-20"}
Branches == {"", "master"}
OsVersions == {"", "0.3.2", "0.4 dev"}
BuildServers == {"http://build.clusterhq.com/"}

ProvisionArgs ==
    [node : Addresses, username : Usernames, distribution : Distributions,
     branch : Branches, os_version : OsVersions, build_server : BuildServers]

\* The arguments held while provision() is not under study.
DefaultArgs ==
    [node |-> "10.0.0.1", username |-> "root", distribution |-> "fedora-20",
     branch |-> "", os_version |-> "", build_server |-> "http://build.clusterhq.com/"]

\* pipes.quote: an argument made only of letters, digits and @%_-+=:,./ is
\* kept; any other is put in single quotes.  Of the arguments that occur
\* here only the package name made from the version "0.4 dev" is one.
shell_quote(arg) ==
    IF arg \in {"", "clusterhq-flocker-node-0.4 dev"}
    THEN "'" \o arg \o "'"
    ELSE arg

\* " ".join(map(shell_quote, command_args))
RECURSIVE joinQuoted(_)
joinQuoted(command_args) ==
    IF command_args = <<>> THEN ""
    ELSE IF Len(command_args) = 1 THEN shell_quote(command_args[1])
    ELSE shell_quote(command_args[1]) \o " " \o joinQuoted(Tail(command_args))

\* Run.from_args
from_args(command_args) == Run(joinQuoted(command_args))

task_install_kernel ==
    <<Run("\nUNAME_R=$(uname -r)\nPV=${UNAME_R%.*}\nKV=${PV%%-*}\nSV=${PV##*-}\n"
          \o "ARCH=$(uname -m)\n"
          \o "yum install -y https://kojipkgs.fedoraproject.org/packages/kernel/"
          \o "${KV}/${SV}/${ARCH}/kernel-devel-${UNAME_R}.rpm\n")>>

task_enable_docker ==
    <<Run("systemctl enable docker.service"),
      Run("systemctl start docker.service")>>

task_disable_firewall ==
    LET rule == <<"--add-rule", "ipv4", "filter", "FORWARD", "0", "-j", "ACCEPT">>
    IN <<from_args(<<"firewall-cmd", "--permanent", "--direct">> \o rule),
         from_args(<<"firewall-cmd", "--direct">> \o rule)>>

task_create_flocker_pool_file ==
    <<Run("mkdir -p /var/opt/flocker"),
      Run("truncate --size 10G /var/opt/flocker/pool-vdev"),
      Run("zpool create flocker /var/opt/flocker/pool-vdev")>>

\* urljoin(build_server, path) for an absolute path: the server's scheme and
\* host, then the path.
urljoin(build_server, path) ==
    IF build_server = "http://build.clusterhq.com/"
    THEN "http://build.clusterhq.com" \o path
    ELSE build_server \o path

task_install_flocker(branch, os_version, build_server, distribution) ==
    LET result_path == "/results/omnibus/" \o branch \o "/" \o distribution
        base_url == urljoin(build_server, result_path)
        repo == "[clusterhq-build]\nname=clusterhq-build\nbaseurl=" \o base_url
                \o "\ngpgcheck=0\nenabled=0\n"
        branch_opt == IF branch # "" THEN <<"--enablerepo=clusterhq-build">>
                      ELSE <<>>
        package == IF os_version # ""
                   THEN "clusterhq-flocker-node-" \o os_version
                   ELSE "clusterhq-flocker-node"
    IN <<Run("yum install -y " \o ZFS_REPO),
         Run("yum install -y " \o CLUSTERHQ_REPO)>>
       \o (IF branch # ""
           THEN <<Put(repo, "/etc/yum.repos.d/clusterhq-build.repo")>>
           ELSE <<>>)
       \o <<from_args(<<"yum", "install">> \o branch_opt \o <<"-y", package>>)>>

\* provision() with the docker and the firewall tasks in each other's place.
provisionFirewallFirst(a) ==
    task_install_kernel
    \o task_install_flocker(a.branch, a.os_version, a.build_server,
                            a.distribution)
    \o task_disable_firewall
    \o task_enable_docker
    \o task_create_flocker_pool_file

\* provision(): the list it hands to run_with_fabric.
provision(a) ==
    task_install_kernel
    \o task_install_flocker(a.branch, a.os_version, a.build_server,
                            a.distribution)
    \o task_enable_docker
    \o task_disable_firewall
    \o task_create_flocker_pool_file

\* provision() is called: the list is built and run_with_fabric enters
\* settings(host_string="%s@%s" % (username, address)).
provisionCalled ==
    /\ pstate = "idle"
    /\ pstate' = "running"
    /\ commands' = provision(args)
    /\ host_string' = args.username \o "@" \o args.node
    /\ UNCHANGED <<args, attempts, executed, failedAt, disconnected>>
    /\ UNCHANGED svars

\* run_with_fabric whose handlers only warn on a failure: the loop goes on.
runWarnOnly ==
    /\ pstate = "running"
    /\ attempts < Len(commands)
    /\ attempts' = attempts + 1
    /\ \E ok \in BOOLEAN :
        /\ executed' = IF ok
                       THEN Append(executed,
                                   [host_string |-> host_string,
                                    command |-> commands[attempts + 1]])
                       ELSE executed
        /\ failedAt' = IF ok THEN failedAt ELSE attempts + 1
    /\ IF attempts + 1 = Len(commands)
       THEN pstate' = "done" /\ host_string' = "" /\ disconnected' = TRUE
       ELSE UNCHANGED <<pstate, host_string, disconnected>>
    /\ UNCHANGED <<args, commands>>
    /\ UNCHANGED svars

\* run_with_fabric, one turn of its loop: the handler of the next command is
\* called.  When it fails (fabric aborts) the error leaves the loop, the
\* settings block and the function; when the last command has run the
\* settings block is left and disconnect_all() is called.
run_with_fabric ==
    /\ pstate = "running"
    /\ attempts < Len(commands)
    /\ attempts' = attempts + 1
    /\ \E ok \in BOOLEAN :
        IF ok
        THEN /\ executed' = Append(executed,
                                   [host_string |-> host_string,
                                    command |-> commands[attempts + 1]])
             /\ failedAt' = failedAt
             /\ IF attempts + 1 = Len(commands)
                THEN /\ pstate' = "done"
                     /\ host_string' = ""
                     /\ disconnected' = TRUE
                ELSE UNCHANGED <<pstate, host_string, disconnected>>
        ELSE /\ pstate' = "failed"
             /\ failedAt' = attempts + 1
             /\ host_string' = ""
             /\ UNCHANGED <<executed, disconnected>>
    /\ UNCHANGED <<args, commands>>
    /\ UNCHANGED svars

\* provision() has not been called.
ProvisionIdle ==
    /\ pstate = "idle"
    /\ commands = <<>>
    /\ attempts = 0
    /\ executed = <<>>
    /\ failedAt = 0
    /\ host_string = ""
    /\ disconnected = FALSE

\* A ChangeSnapshotter with no provision() call in sight.
Init ==
    /\ SnapshotterInit
    /\ args = DefaultArgs
    /\ ProvisionIdle

\* A provision() call with any of the arguments.
InitProvision ==
    /\ SnapshotterInit
    /\ args \in ProvisionArgs
    /\ ProvisionIdle

NextProvision ==
    \/ provisionCalled
    \/ run_with_fabric

SpecProvision == InitProvision /\ [][NextProvision]_vars

Next ==
    \/ filesystemChanged
    \/ ProviderResolves
    \/ receiveCompletion
    \/ Tick

Spec == Init /\ [][Next]_vars

TypeOK ==
    /\ name \in Nodes
    /\ state \in _States
    /\ now \in 0..MaxTime
    /\ Len(created) = Len(status)
    /\ changes \in 0..MaxChanges
    /\ signals \in 0..MaxSignals
    /\ raised \in Raised

\* ------------------------------------------------------- steps and attempts

\* The attempts whose create result has not resolved.
Outstanding == {i \in DOMAIN status : status[i] = "running"}

\* This step made k create calls.
CreateCalls(k) == Len(created') = Len(created) + k

\* This step is a filesystemChanged() call.
ChangedStep == changes' = changes + 1

\* This step hands a completion signal to the machine.
SignalStep == signals' = signals + 1

\* This step is the in-flight attempt reporting `outcome`.
ReportStep(outcome) ==
    /\ Len(status') = Len(status)
    /\ status # <<>>
    /\ status[Len(status)] = "running"
    /\ status'[Len(status)] = outcome

\* The tag names no attempt, or an attempt that is not the latest one.
Stale(tag) ==
    \/ created = <<>>
    \/ SnapshotName(fromtimestamp(tag), name) # created[Len(created)]

\* ------------------------------------------------------------------ claims

\* C1: at most one attempt is outstanding at any time: create is called only
\* in a step that finds no earlier attempt unresolved, and once in that step.
C1_OneAttemptAtATime ==
    [][(Len(created') > Len(created)) =>
          (CreateCalls(1) /\ Outstanding = {})]_vars

\* C1 witness: an attempt is outstanding and further notifications came in.
C1_Witness ==
    /\ state = "SNAPSHOTTING"
    /\ Outstanding = {1}
    /\ changes >= 2

\* C2: filesystemChanged() in IDLE makes exactly one create call and moves
\* the machine to SNAPSHOTTING.
C2_IdleChangedStarts ==
    [][(state = "IDLE" /\ ChangedStep) =>
          (CreateCalls(1) /\ state' = "SNAPSHOTTING" /\ raised' = "none")]_vars

\* C2 witness: the first notification was made and started the attempt.
C2_Witness ==
    /\ changes = 1
    /\ state = "SNAPSHOTTING"
    /\ Len(created) = 1
    /\ raised = "none"

\* C3: filesystemChanged() never fails, in whatever state it is called.
C3_ChangedNeverFails ==
    lastInput.symbol = "FILESYSTEM_CHANGED" => raised = "none"

\* C4: a notification while an attempt is outstanding makes no create call
\* and leaves the machine in the state that records a pending change
\* (SNAPSHOTTING_DIRTY).
C4_ChangedWhileAttempting ==
    [][(state # "IDLE" /\ ChangedStep) =>
          (CreateCalls(0) /\ state' = "SNAPSHOTTING_DIRTY")]_vars

\* C5: when the attempt reports success after one or more notifications
\* came in during it, exactly one create call follows and the machine is in
\* SNAPSHOTTING.
C5_CoalescedFollowUp ==
    [][(ReportStep("succeeded") /\ sinceStart >= 1) =>
          (CreateCalls(1) /\ state' = "SNAPSHOTTING")]_vars

\* C6: when the attempt reports failure, exactly one create call follows at
\* once and the machine is in SNAPSHOTTING.
C6_FailedRetries ==
    [][ReportStep("failed") =>
          (CreateCalls(1) /\ state' = "SNAPSHOTTING")]_vars

\* C7: when the attempt reports success and no notification came in during
\* it, no create call is made and the machine returns to IDLE.
C7_SucceededToIdle ==
    [][(ReportStep("succeeded") /\ sinceStart = 0) =>
          (CreateCalls(0) /\ state' = "IDLE")]_vars

\* C8: an attempt that has not resolved when its deadline has passed has
\* been given up and followed by a new create call.
C8_DeadlineRetries ==
    \A i \in Outstanding :
        now - SecondsOf(created[i]) > Deadline => Len(created) > i

\* C9: a completion signal tagged with an attempt that is not the current
\* one changes neither the state nor the create calls, in every state.
C9_StaleSignalNoEffect ==
    [][(SignalStep /\ Stale(lastInput'.tag)) =>
          (state' = state /\ CreateCalls(0))]_vars

\* C9 witness: with an attempt started, a signal tagged with another
\* attempt was handed in.
C9_Witness ==
    /\ state = "SNAPSHOTTING"
    /\ created # <<>>
    /\ lastInput.symbol \in CommentedInputs
    /\ Stale(lastInput.tag)

\* C10: a completion signal arriving in IDLE is rejected or ignored: the
\* machine stays in IDLE and makes no create call, and a notification after
\* it still starts an attempt.
C10_SignalInIdle ==
    [][/\ (state = "IDLE" /\ SignalStep) =>
             (state' = "IDLE" /\ CreateCalls(0))
       /\ (state = "IDLE" /\ signals >= 1 /\ ChangedStep) =>
             (state' = "SNAPSHOTTING" /\ CreateCalls(1))]_vars

\* C10 witness: a completion signal was handed in while IDLE and rejected.
C10_Witness ==
    /\ state = "IDLE"
    /\ lastInput.symbol \in CommentedInputs
    /\ raised = "IllegalInput"

\* C11: every started attempt is named with the clock reading of the moment
\* it starts and with the node name the instance was constructed with.
C11_NamedAtStart ==
    [][(Len(created') > Len(created)) =>
          (/\ SecondsOf(created'[Len(created')]) = now
           /\ created'[Len(created')].node = name)]_vars

\* C11 witness: an attempt started after the clock had advanced.
C11_Witness ==
    /\ created # <<>>
    /\ SecondsOf(created[1]) >= 2
    /\ created[1].node = name

\* C12: every notification is followed by a create call started at or after
\* it, once the outstanding attempt has resolved: whenever no attempt is
\* outstanding, no notification is left that came after the last create call.
C12_NoChangeDropped ==
    Outstanding = {} => sinceStart = 0

\* The states the table leads to from the states S, by any inputs.
RECURSIVE TableReach(_)
TableReach(S) ==
    LET M == S \cup UNION {{_transitions[s][i].nextState :
                               i \in DOMAIN _transitions[s]} : s \in S}
    IN IF M = S THEN S ELSE TableReach(M)

\* Some input in state s has START_SNAPSHOT among its outputs.
StartsAttempt(s) ==
    \E i \in DOMAIN _transitions[s] :
        \E k \in DOMAIN _transitions[s][i].output :
            _transitions[s][i].output[k] = "START_SNAPSHOT"

\* C13: the machine has no terminal state: from every reachable state some
\* sequence of inputs leads to a transition that starts an attempt.
C13_NoTerminalState ==
    \E s \in TableReach({state}) : StartsAttempt(s)

\* C17: over any sequence of filesystemChanged() calls create is called at
\* most once, and only by the first call; once in SNAPSHOTTING no input
\* changes the state or starts a snapshot.
C17_OnlyFirstCallSnapshots ==
    [][/\ Len(created') <= 1
       /\ (Len(created') > Len(created)) => (ChangedStep /\ changes = 0)
       /\ (state = "SNAPSHOTTING") =>
             (state' = "SNAPSHOTTING" /\ CreateCalls(0))]_vars

\* C17 witness: three calls were made, one snapshot was started.
C17_Witness ==
    /\ changes >= 3
    /\ Len(created) = 1
    /\ state = "SNAPSHOTTING"
    /\ raised = "UnhandledInput"

\* C14: when the attempt resolved before its deadline, the clock reaching
\* and passing the deadline fires nothing: no create call, no state change.
C14_ResolvedAttemptNoTimeout ==
    [][(/\ now' = now + 1
        /\ Len(created) \in inTime
        /\ now' - SecondsOf(created[Len(created)]) >= Deadline) =>
          (state' = state /\ CreateCalls(0) /\ status' = status)]_vars

\* C14 witness: the attempt resolved in time and its deadline has passed.
C14_Witness ==
    /\ Len(created) \in inTime
    /\ now - SecondsOf(created[Len(created)]) >= Deadline

\* C16: consecutive attempt starts are at least MinInterval apart, and a
\* start that would come sooner is deferred, not lost: once the interval
\* since the last start has passed and no attempt is outstanding, no
\* notification is left waiting for its snapshot.
C16_RateLimited ==
    /\ \A i \in 2..Len(created) :
          SecondsOf(created[i]) - SecondsOf(created[i - 1]) >= MinInterval
    /\ (/\ created # <<>>
        /\ Outstanding = {}
        /\ now - SecondsOf(created[Len(created)]) > MinInterval) =>
          sinceStart = 0

\* The command list seq is in the order kernel headers, storage package
\* installs, docker enable and start, the two firewall rules, the three
\* pool-file commands.
InProvisionOrder(seq) ==
    LET n == Len(seq)
        firewall == "--add-rule ipv4 filter FORWARD 0 -j ACCEPT"
        tail == <<"systemctl enable docker.service",
                  "systemctl start docker.service",
                  "firewall-cmd --permanent --direct " \o firewall,
                  "firewall-cmd --direct " \o firewall,
                  "mkdir -p /var/opt/flocker",
                  "truncate --size 10G /var/opt/flocker/pool-vdev",
                  "zpool create flocker /var/opt/flocker/pool-vdev">>
    IN /\ n \in {11, 12}
       /\ seq[1] = task_install_kernel[1]
       /\ seq[2] = Run("yum install -y " \o ZFS_REPO)
       /\ seq[3] = Run("yum install -y " \o CLUSTERHQ_REPO)
       /\ \A i \in 4..(n - 7) :
             \/ seq[i].type = "Put"
             \/ seq[i].type = "Run" /\ \A k \in 1..7 : seq[i].command # tail[k]
       /\ seq[n - 7].type = "Run"
       /\ \A k \in 1..7 : seq[n - 7 + k] = Run(tail[k])

\* C18: provision() runs its commands in one fixed order in one session:
\* what the host has run is always the first part of that order, each
\* command under the same user@address, and the session is disconnected
\* only after the last command has run.
C18_FixedOrderOneSession ==
    /\ pstate # "idle" => InProvisionOrder(commands)
    /\ Len(executed) <= Len(commands)
    /\ \A i \in DOMAIN executed :
          /\ executed[i].command = commands[i]
          /\ executed[i].host_string = args.username \o "@" \o args.node
    /\ disconnected => (pstate = "done" /\ Len(executed) = Len(commands))

\* C18 witness: all twelve commands of a branch install have run and the
\* session is disconnected.
C18_Witness ==
    /\ disconnected
    /\ Len(executed) = 12
    /\ executed[4].command.type = "Put"

\* C19: when a command fails in run_with_fabric, no later command is run,
\* none is tried again and disconnect_all is not reached.
C19_FailureStopsTheRun ==
    failedAt # 0 =>
        /\ pstate = "failed"
        /\ attempts = failedAt
        /\ Len(executed) = failedAt - 1
        /\ ~disconnected

\* C19 witness: a command in the middle of the list failed.
C19_Witness ==
    /\ pstate = "failed"
    /\ failedAt = 5
    /\ Len(executed) = 4
    /\ Len(commands) >= 11

====
